---- MODULE Spec2Model ----
(***************************************************************************)
(* A model of darkodi/url-shortener: the shortening service               *)
(* (internal/service/url_service.go), the storage gateway with its        *)
(* primary and read replicas (internal/repository/url_repo.go), the       *)
(* base-62 encoder, the token-bucket rate limiter (middleware            *)
(* RateLimiter), the request validator (internal/validator/validator.go)  *)
(* and the HTTP handlers in front of the service (handler URLHandler).    *)
(*                                                                         *)
(* Strings that the code inspects character by character (short codes,    *)
(* aliases) are sequences of one-character strings.  One action is one    *)
(* storage operation of a request: the local computation of a handler     *)
(* around it is part of the same step.                                     *)
(***************************************************************************)
EXTENDS Integers, Sequences, FiniteSets, TLC

VARIABLES
    driver,      \* URLRepository.driver: "postgres" or "sqlite3"
    nrep,        \* len(URLRepository.replicas)
    primary,     \* rows of table urls in the primary database
    seq,         \* last value handed out by the engine's id generator
    replica,     \* replica[i]: rows of table urls as replica i has them
    rrIndex,     \* URLRepository.rrIndex (uint32, as two 16-bit halves)
    readLog,     \* replica index chosen by each read of the sequential caller
    pc,          \* pc[w]: where request worker w stands
    frame,       \* frame[w]: request and locals of the call w executes
    ret,         \* ret[w]: what the last call of w returned
    ncalls,      \* number of service calls begun so far
    snap,        \* the primary's rows when the sequential caller began its call
    resolved,    \* resolved[c]: Resolve calls of code c that returned its URL
    num,         \* the uint64 handed to Encode
    encoded,     \* the string Encode returned, or the string handed to Decode
    decoded,     \* what Decode returned
    step,        \* where the caller of the encoder stands
    rate,        \* RateLimiter.rate
    burst,       \* RateLimiter.burst
    interval,    \* RateLimiter.interval, in clock ticks
    cleanup,     \* RateLimiter.cleanup, in clock ticks
    now,         \* time.Now(), in clock ticks
    clients,     \* RateLimiter.clients
    tickDue,     \* a tick waits in ticker.C of cleanupLoop
    unswept,     \* clients of the same limiter whose cleanupLoop never runs
    last,        \* the latest Allow call and its decision
    first,       \* first[ip]: time of the first Allow call of ip
    cnt1,        \* cnt1[ip]: Allow calls of ip inside its first refill interval
    cnt2,        \* cnt2[ip]: Allow calls of ip after its first refill interval
    admits,      \* admits[ip]: times of the calls of ip the never-swept table admitted
    down,        \* indexes into URLRepository.replicas of the replicas that are down
    closed,      \* connections Close was called on: 0 the primary, i replica i - 1
    closeFailed, \* connections whose Close returns an error
    closeRet,    \* what URLRepository.Close returned
    sBaseURL,    \* URLService.baseURL
    vreq,        \* the validator call in hand: its function and its argument
    vres,        \* what the validator call returned
    resp,        \* the HTTP response to the last request of the sequential caller
    boot         \* what NewURLRepository did: its result, the connections it opened and closed

svcVars == <<driver, nrep, primary, seq, replica, rrIndex, readLog, pc, frame, ret, ncalls, snap,
             resolved>>
encVars == <<num, encoded, decoded, step>>
auxVars == <<down, closed, closeFailed, closeRet, sBaseURL, vreq, vres, resp, boot>>
rlVars  == <<rate, burst, interval, cleanup, now, clients, tickDue, unswept, last, first, cnt1, cnt2,
             admits>>
vars    == <<driver, nrep, primary, seq, replica, rrIndex, readLog, pc, frame, ret, ncalls, snap,
             resolved, num, encoded, decoded, step,
             rate, burst, interval, cleanup, now, clients, tickDue, unswept, last, first, cnt1, cnt2,
             admits,
             down, closed, closeFailed, closeRet, sBaseURL, vreq, vres, resp, boot>>

----------------------------------------------------------------------------
(* Bounds of the model *)

\* service calls begun by the concurrent workers in one behaviour
MaxCalls == 3
\* service calls begun by the sequential caller in one behaviour
MaxSeqCalls == 4
\* replicas configured in the concurrent and the sequential service specifications
MaxReplicas == 1
\* reads issued in the read-routing specification
MaxReads == 9

Workers == {"w1", "w2"}

----------------------------------------------------------------------------
(* encoder *)

alphabet ==
    << "0","1","2","3","4","5","6","7","8","9",
       "a","b","c","d","e","f","g","h","i","j","k","l","m",
       "n","o","p","q","r","s","t","u","v","w","x","y","z",
       "A","B","C","D","E","F","G","H","I","J","K","L","M",
       "N","O","P","Q","R","S","T","U","V","W","X","Y","Z" >>

base == Len(alphabet)

\* A uint64 is kept as two limbs, value = hi * 62^5 + lo with 0 <= lo < 62^5,
\* so that the numbers up to 62^10 - 1 keep their width.  A negative hi stands
\* for the wrapped value 2^64 + hi * 62^5 + lo, which is what uint64(-1) and
\* the sums Decode builds on it are.
Limb == 916132832
U64(hi, lo) == [hi |-> hi, lo |-> lo]

\* uint64(n) for an n below 2^31
Uint64(n) == U64(n \div Limb, n % Limb)

\* num % base: Limb is a multiple of base
ModBase(n) == n.lo % base

\* num / base
DivBase(n) == U64(n.hi \div base, (n.hi % base) * (Limb \div base) + (n.lo \div base))

\* the loop of Encode with the digits appended instead of prepended
RECURSIVE EncodeLoopAppending(_, _)
EncodeLoopAppending(n, out) ==
    IF n # U64(0, 0)
    THEN EncodeLoopAppending(DivBase(n), out \o <<alphabet[ModBase(n) + 1]>>)
    ELSE out

RECURSIVE EncodeLoop(_, _)
EncodeLoop(n, out) ==
    IF n # U64(0, 0)
    THEN EncodeLoop(DivBase(n), <<alphabet[ModBase(n) + 1]>> \o out)
    ELSE out

\* Encode without its special case for 0
EncodeWithoutZeroCase(n) == EncodeLoop(n, <<>>)

Encode(n) ==
    IF n = U64(0, 0) THEN <<alphabet[1]>> ELSE EncodeLoop(n, <<>>)

\* byte(char) of a rune: the rune's low 8 bits.  The model's one rune beyond
\* ASCII is U+0131, whose low byte 0x31 is the character 1.
Byte(char) == IF char = "U+0131" THEN "1" ELSE char

\* indexOf: the 0-based position of char in the alphabet, or -1
indexOf(char) ==
    IF \E i \in 1..base : alphabet[i] = char
    THEN (CHOOSE i \in 1..base : alphabet[i] = char) - 1
    ELSE -1

\* num * base + uint64(d), for d in -1..61
MulAdd(n, d) ==
    LET a == n.lo \div (Limb \div base)
        b == n.lo % (Limb \div base)
        x == b * base + d
    IN  U64(n.hi * base + a + (x \div Limb), x % Limb)

RECURSIVE DecodeLoop(_, _, _)
DecodeLoop(s, i, n) ==
    IF i > Len(s) THEN n
    ELSE DecodeLoop(s, i + 1, MulAdd(n, indexOf(Byte(s[i]))))

Decode(s) == DecodeLoop(s, 1, U64(0, 0))

----------------------------------------------------------------------------
(* requests *)

\* the raw URLs the model submits; the last one stands for a URL of 2049
\* bytes, https://example.com/ followed by 2029 letters
RawURLs ==
    { "https://example.com", "https://other.com", "ftp://example.com", "example.com", "",
      "   ", "HTTP://EXAMPLE.COM", "Https://Example.com/a b", "http://", "https:///path",
      "not a url", "//example.com", "mailto:user@example.com", "http://exa mple.com",
      " https://example.com", "http://localhost:3000/x", "http://192.168.1.1",
      "http://10.example.com", "https://example.com/aaa...a" }

\* url.Parse on a raw URL: whether it fails and, if not, Scheme (which Parse
\* lower-cases) and Host of the result, and len(rawURL).  A host is kept as its
\* pieces: a pattern of isPrivateIP it begins with, the rest, and a last piece
\* ":port".
ParsedURL ==
    [r \in RawURLs |->
        CASE r = "https://example.com"     -> [err |-> FALSE, scheme |-> "https", host |-> <<"example.com">>, len |-> 19]
          [] r = "https://other.com"       -> [err |-> FALSE, scheme |-> "https", host |-> <<"other.com">>, len |-> 17]
          [] r = "ftp://example.com"       -> [err |-> FALSE, scheme |-> "ftp", host |-> <<"example.com">>, len |-> 17]
          [] r = "example.com"             -> [err |-> FALSE, scheme |-> "", host |-> <<>>, len |-> 11]
          [] r = ""                        -> [err |-> FALSE, scheme |-> "", host |-> <<>>, len |-> 0]
          [] r = "   "                     -> [err |-> FALSE, scheme |-> "", host |-> <<>>, len |-> 3]
          [] r = "HTTP://EXAMPLE.COM"      -> [err |-> FALSE, scheme |-> "http", host |-> <<"EXAMPLE.COM">>, len |-> 18]
          [] r = "Https://Example.com/a b" -> [err |-> FALSE, scheme |-> "https", host |-> <<"Example.com">>, len |-> 23]
          [] r = "http://"                 -> [err |-> FALSE, scheme |-> "http", host |-> <<>>, len |-> 7]
          [] r = "https:///path"           -> [err |-> FALSE, scheme |-> "https", host |-> <<>>, len |-> 13]
          [] r = "not a url"               -> [err |-> FALSE, scheme |-> "", host |-> <<>>, len |-> 9]
          [] r = "//example.com"           -> [err |-> FALSE, scheme |-> "", host |-> <<"example.com">>, len |-> 13]
          [] r = "mailto:user@example.com" -> [err |-> FALSE, scheme |-> "mailto", host |-> <<>>, len |-> 23]
          [] r = "http://exa mple.com"     -> [err |-> TRUE, scheme |-> "", host |-> <<>>, len |-> 19]
          [] r = " https://example.com"    -> [err |-> TRUE, scheme |-> "", host |-> <<>>, len |-> 20]
          [] r = "http://localhost:3000/x" -> [err |-> FALSE, scheme |-> "http", host |-> <<"localhost", ":3000">>, len |-> 23]
          [] r = "http://192.168.1.1"      -> [err |-> FALSE, scheme |-> "http", host |-> <<"192.168.", "1.1">>, len |-> 18]
          [] r = "http://10.example.com"   -> [err |-> FALSE, scheme |-> "http", host |-> <<"10.", "example.com">>, len |-> 21]
          [] OTHER                         -> [err |-> FALSE, scheme |-> "https", host |-> <<"example.com">>, len |-> 2049]]

\* strings.TrimSpace(rawURL) == ""
Blank(rawURL) == rawURL \in {"", "   "}

\* a validateURL that does not look at the scheme's name
validateURLAnyScheme(rawURL) ==
    IF Blank(rawURL) THEN "ErrEmptyURL"
    ELSE IF ParsedURL[rawURL].err THEN "ErrInvalidURL"
    ELSE IF ParsedURL[rawURL].scheme = "" \/ ParsedURL[rawURL].host = <<>> THEN "ErrInvalidURL"
    ELSE "OK"

validateURL(rawURL) ==
    IF Blank(rawURL) THEN "ErrEmptyURL"
    ELSE IF ParsedURL[rawURL].err THEN "ErrInvalidURL"
    ELSE IF ParsedURL[rawURL].scheme = "" \/ ParsedURL[rawURL].host = <<>> THEN "ErrInvalidURL"
    ELSE IF ParsedURL[rawURL].scheme # "http" /\ ParsedURL[rawURL].scheme # "https" THEN "ErrInvalidURL"
    ELSE "OK"

Lower == {alphabet[i] : i \in 11..36}
Upper == {alphabet[i] : i \in 37..62}
Digit == {alphabet[i] : i \in 1..10}

isValidAliasChar(char) ==
    char \in Lower \/ char \in Upper \/ char \in Digit \/ char = "-" \/ char = "_"

\* len(s) of a Go string: its bytes.  The model's one rune beyond ASCII,
\* U+0131, takes two.
RECURSIVE len(_)
len(s) == IF s = <<>> THEN 0 ELSE (IF s[1] = "U+0131" THEN 2 ELSE 1) + len(Tail(s))

\* a validateAlias whose upper length bound is exclusive
validateAliasBelowTwenty(alias) ==
    IF len(alias) < 3 \/ len(alias) >= 20 THEN "ErrInvalidAlias"
    ELSE IF \E i \in 1..Len(alias) : ~isValidAliasChar(alias[i]) THEN "ErrInvalidAlias"
    ELSE "OK"

validateAlias(alias) ==
    IF len(alias) < 3 \/ len(alias) > 20 THEN "ErrInvalidAlias"
    ELSE IF \E i \in 1..Len(alias) : ~isValidAliasChar(alias[i]) THEN "ErrInvalidAlias"
    ELSE "OK"

NoAlias == <<>>

----------------------------------------------------------------------------
(* URLValidator, as NewURLValidator configures it *)

maxLength == 2048

isAllowedScheme(scheme) == scheme \in {"http", "https"}

localPatterns ==
    { "localhost", "127.", "0.0.0.0", "::1", "10.", "192.168.",
      "172.16.", "172.17.", "172.18.", "172.19.", "172.20.", "172.21.", "172.22.", "172.23.",
      "172.24.", "172.25.", "172.26.", "172.27.", "172.28.", "172.29.", "172.30.", "172.31." }

\* isPrivateIP: the host without its port (the model's one port is 3000)
\* begins with a local pattern
isPrivateIP(host) ==
    LET hostOnly == IF host # <<>> /\ host[Len(host)] \in {":3000"}
                    THEN SubSeq(host, 1, Len(host) - 1) ELSE host
    IN  hostOnly # <<>> /\ hostOnly[1] \in localPatterns

ValidateURL(rawURL) ==
    IF Blank(rawURL) THEN "MissingField"
    ELSE IF ParsedURL[rawURL].len > maxLength THEN "InvalidURL"
    ELSE IF ParsedURL[rawURL].err THEN "InvalidURL"
    ELSE IF ~isAllowedScheme(ParsedURL[rawURL].scheme) THEN "InvalidURL"
    ELSE IF ParsedURL[rawURL].host = <<>> THEN "InvalidURL"
    ELSE IF isPrivateIP(ParsedURL[rawURL].host) THEN "InvalidURL"
    ELSE "OK"

ValidateShortCode(code) ==
    IF code = <<>> THEN "MissingField"
    ELSE IF len(code) < 3 \/ len(code) > 20 THEN "BadRequest"
    ELSE IF \E i \in 1..Len(code) : ~isValidAliasChar(code[i]) THEN "BadRequest"
    ELSE "OK"

reserved ==
    { <<"a","p","i">>, <<"a","d","m","i","n">>, <<"h","e","a","l","t","h">>,
      <<"s","h","o","r","t","e","n">>, <<"s","t","a","t","s">>, <<"s","t","a","t","i","c">> }

\* strings.EqualFold on strings over the model's characters: equal up to the
\* case of the ASCII letters
EqualFold(s, t) ==
    /\ Len(s) = Len(t)
    /\ \A i \in 1..Len(s) :
          \/ s[i] = t[i]
          \/ \E k \in 11..36 : {s[i], t[i]} = {alphabet[k], alphabet[k + 26]}

ValidateCustomCode(code) ==
    IF code = <<>> THEN "OK"
    ELSE IF \E r \in reserved : EqualFold(code, r) THEN "BadRequest"
    ELSE ValidateShortCode(code)

----------------------------------------------------------------------------
(* table urls *)

NoRow == [id |-> 0]

Codes(t) == {r.short_code : r \in t}
Ids(t) == {r.id : r \in t}
Row(t, code) == CHOOSE r \in t : r.short_code = code

\* the SELECT without its WHERE clause: any row of the table answers
QueryWithoutWhere(db, code) ==
    IF db # {} THEN [err |-> "OK", row |-> CHOOSE r \in db : TRUE]
    ELSE [err |-> "ErrNotFound", row |-> NoRow]

\* SELECT ... FROM urls WHERE short_code = $1, on database db
Query(db, code) ==
    IF code \in Codes(db) THEN [err |-> "OK", row |-> Row(db, code)]
    ELSE [err |-> "ErrNotFound", row |-> NoRow]

\* SELECT MAX(id) FROM urls
MaxID(t) == IF t = {} THEN 0 ELSE CHOOSE m \in Ids(t) : \A i \in Ids(t) : i <= m

----------------------------------------------------------------------------
(* URLRepository *)

Failed == [err |-> "ErrStorage", row |-> NoRow]

\* A uint32 is kept as its two 16-bit halves, value = hi * 2^16 + lo, so that
\* the counter keeps its 32-bit width.
Half == 65536
U32(hi, lo) == [hi |-> hi, lo |-> lo]

\* a counter whose increment is lost
AddUint32Lost(v) == v

\* atomic.AddUint32(&r.rrIndex, 1): the new value, wrapping at 2^32
AddUint32(v) ==
    IF v.lo = Half - 1 THEN U32((v.hi + 1) % Half, 0) ELSE U32(v.hi, v.lo + 1)

\* idx % uint32(n)
ModUint32(v, n) == ((v.hi % n) * (Half % n) + (v.lo % n)) % n

\* index into r.replicas that getReadDB selects (0-based, as in the code)
ReadIdx == ModUint32(AddUint32(rrIndex), nrep)

\* a getReadDB that never leaves the primary
getReadDBPrimaryOnly == primary

getReadDB == IF nrep = 0 THEN primary ELSE replica[ReadIdx + 1]

\* the counter and the read log after one getReadDB
ReadRouted ==
    /\ rrIndex' = IF nrep = 0 THEN rrIndex ELSE AddUint32(rrIndex)
    /\ readLog' = IF nrep = 0 THEN readLog ELSE Append(readLog, ReadIdx)

\* whether the query of a read can fail: on a replica that is down it always
\* does, on any other database it may
ReadFailures == IF nrep > 0 /\ ReadIdx \in down THEN {TRUE} ELSE BOOLEAN

\* a GetByShortCode that asks the primary when the selected database fails
GetByShortCodeWithFallback(shortCode, fail) ==
    IF fail THEN Query(primary, shortCode) ELSE Query(getReadDB, shortCode)

\* what GetByShortCode returns; fail: the query on the selected database fails
GetByShortCode(shortCode, fail) ==
    IF fail THEN Failed ELSE Query(getReadDB, shortCode)

\* a table whose short_code column is not declared UNIQUE
UniqueViolationUnenforced(t, code) == FALSE

\* the UNIQUE constraint on short_code
UniqueViolation(t, code) == code \in Codes(t)

\* an id generator that hands its last value out again
EngineIDReused == IF seq = 0 THEN 1 ELSE seq

\* the id the engine gives the inserted row: BIGSERIAL / AUTOINCREMENT
EngineID == seq + 1

\* the engine's id generator after an INSERT that hit the UNIQUE constraint:
\* a PostgreSQL sequence value is consumed, SQLite rolls the statement back
SeqAfterConflict == IF driver = "postgres" THEN seq + 1 ELSE seq

NewRow(id, code, url) ==
    [id |-> id, short_code |-> code, original_url |-> url,
     created_at |-> now, click_count |-> 0]

\* the UPDATE without its WHERE clause
IncrementWithoutWhere(t, shortCode) ==
    { [r EXCEPT !.click_count = @ + 1] : r \in t }

\* the increment as a delete and re-insert of the row, under a new id
IncrementByReplace(t, shortCode) ==
    { IF r.short_code = shortCode
      THEN [r EXCEPT !.click_count = @ + 1, !.id = seq + 1] ELSE r : r \in t }

\* the increment computed from the count the read database holds
IncrementFromReadDB(t, shortCode) ==
    { IF r.short_code = shortCode /\ shortCode \in Codes(getReadDB)
      THEN [r EXCEPT !.click_count = Row(getReadDB, shortCode).click_count + 1]
      ELSE r : r \in t }

\* UPDATE urls SET click_count = click_count + 1 WHERE short_code = $1
IncrementClickCount(t, shortCode) ==
    { IF r.short_code = shortCode THEN [r EXCEPT !.click_count = @ + 1] ELSE r : r \in t }

\* a next id taken from COUNT(*) instead of MAX(id)
GetNextIDByCount(t) == Cardinality(t) + 1

\* GetNextID: MAX(id) + 1, or 1 on an empty table
GetNextID(t) == IF t = {} THEN 1 ELSE MaxID(t) + 1

\* the error of one failed close, as Close wraps it
CloseError(c) == IF c = 0 THEN <<"primary">> ELSE <<"replica", c - 1>>

\* a Close that returns at the first close that fails
RECURSIVE CloseUntilFirstError(_, _, _, _)
CloseUntilFirstError(c, done, errs, failing) ==
    IF c > nrep \/ errs # <<>> THEN [closed |-> done, errs |-> errs]
    ELSE CloseUntilFirstError(c + 1, done \cup {c},
                              IF c \in failing THEN Append(errs, CloseError(c)) ELSE errs, failing)

\* the closes of Close from connection c on: the primary, then every replica
RECURSIVE CloseFrom(_, _, _, _)
CloseFrom(c, done, errs, failing) ==
    IF c > nrep THEN [closed |-> done, errs |-> errs]
    ELSE CloseFrom(c + 1, done \cup {c},
                   IF c \in failing THEN Append(errs, CloseError(c)) ELSE errs, failing)

\* a loop over cfg.ReplicaHosts that, when a replica fails to open, closes the
\* primary and leaves the replicas opened before it as they are
RECURSIVE openReplicasLeaky(_, _, _, _)
openReplicasLeaky(i, replicas, k, ping) ==
    IF i > nrep
    THEN [ret |-> "repo", step |-> k, opened |-> {0} \cup replicas, shut |-> {}]
    ELSE IF k = i + 1
    THEN LET pinged == IF ping THEN {i} ELSE {} IN
         [ret |-> "error", step |-> k, opened |-> {0} \cup replicas \cup pinged,
          shut |-> {0} \cup pinged]
    ELSE openReplicasLeaky(i + 1, replicas \cup {i}, k, ping)

\* the loop of NewURLRepository over cfg.ReplicaHosts from host i on; replicas:
\* the connections appended so far; k: the step of the startup that fails
\* (i + 1 for host i); ping: the failing open got as far as its Ping, after
\* which openPostgres closes the handle itself
RECURSIVE openReplicas(_, _, _, _)
openReplicas(i, replicas, k, ping) ==
    IF i > nrep
    THEN [ret |-> "repo", step |-> k, opened |-> {0} \cup replicas, shut |-> {}]
    ELSE IF k = i + 1
    THEN LET pinged == IF ping THEN {i} ELSE {} IN
         [ret |-> "error", step |-> k, opened |-> {0} \cup replicas \cup pinged,
          shut |-> {0} \cup replicas \cup pinged]
    ELSE openReplicas(i + 1, replicas \cup {i}, k, ping)

\* NewURLRepository; step 0 opens the primary, step 1 initialises the schema,
\* step i + 1 opens replica host i, and step k of them fails (none when
\* k = nrep + 2)
NewURLRepository ==
    /\ boot.ret = "none"
    /\ \E k \in 0..(nrep + 2), ping \in BOOLEAN :
         boot' = IF k = 0
                 THEN [ret |-> "error", step |-> 0,
                       opened |-> IF ping THEN {0} ELSE {}, shut |-> IF ping THEN {0} ELSE {}]
                 ELSE IF k = 1
                 THEN [ret |-> "error", step |-> 1, opened |-> {0}, shut |-> {0}]
                 ELSE openReplicas(1, {}, k, ping)

\* the repository NewURLRepository returned, before Close
Open ==
    /\ closed = {}
    /\ closeFailed = {}
    /\ closeRet = [nil |-> TRUE, errs |-> <<>>]
    /\ boot = [ret |-> "repo", step |-> nrep + 2, opened |-> 0..nrep, shut |-> {}]

\* Close; failing: the connections whose close returns an error
Close ==
    /\ closed = {}
    /\ \E failing \in SUBSET (0..nrep) :
         LET r == CloseFrom(0, {}, <<>>, failing) IN
         /\ closeFailed' = failing
         /\ closed' = r.closed
         /\ closeRet' = [nil |-> Len(r.errs) = 0, errs |-> r.errs]

----------------------------------------------------------------------------
(* URLService *)

baseURL == "http://localhost:8080"

\* a NewURLService that keeps the configured base URL as it is
NewURLServiceUntrimmed(configured) == sBaseURL = configured

\* strings.TrimRight(s, "/") on a string kept as its pieces
RECURSIVE TrimRight(_)
TrimRight(s) ==
    IF s # <<>> /\ s[Len(s)] = "/" THEN TrimRight(SubSeq(s, 1, Len(s) - 1)) ELSE s

\* NewURLService: the base URL loses its trailing slashes
NewURLService(configured) == sBaseURL = TrimRight(configured)

NoFrame == [op |-> "none"]
NoRet == [op |-> "none"]

NewFrame(op, url, alias, code) ==
    [op |-> op, url |-> url, alias |-> alias, code |-> code]

\* what a call hands back: err, the value, and the call's request and locals
Result(f, err, val, incErr) ==
    [op |-> f.op, url |-> f.url, alias |-> f.alias, code |-> f.code,
     err |-> err, val |-> val, incErr |-> incErr]

Return(w, f, err, val, incErr) ==
    /\ pc' = [pc EXCEPT ![w] = "idle"]
    /\ frame' = [frame EXCEPT ![w] = NoFrame]
    /\ ret' = [ret EXCEPT ![w] = Result(f, err, val, incErr)]

Proceed(w, f, next) ==
    /\ pc' = [pc EXCEPT ![w] = next]
    /\ frame' = [frame EXCEPT ![w] = f]
    /\ ret' = [ret EXCEPT ![w] = NoRet]

\* a CreateShortURL that validates the alias before the URL
CreateShortURLAliasFirst(w, url, alias) ==
    /\ pc[w] = "idle"
    /\ ncalls' = ncalls + 1
    /\ UNCHANGED <<driver, nrep, primary, seq, replica>>
    /\ LET f == NewFrame("create", url, alias, alias) IN
       IF alias # NoAlias /\ validateAlias(alias) # "OK"
       THEN Return(w, f, validateAlias(alias), "", FALSE) /\ UNCHANGED <<rrIndex, readLog>>
       ELSE IF validateURL(url) # "OK"
       THEN Return(w, f, validateURL(url), "", FALSE) /\ UNCHANGED <<rrIndex, readLog>>
       ELSE IF alias # NoAlias
       THEN \E fail \in ReadFailures :
              /\ ReadRouted
              /\ LET got == GetByShortCode(alias, fail) IN
                 IF got.err = "OK" THEN Return(w, f, "ErrAliasExists", "", FALSE)
                 ELSE IF got.err # "ErrNotFound" THEN Return(w, f, got.err, "", FALSE)
                 ELSE Proceed(w, f, "insert")
       ELSE \E fail \in BOOLEAN :
              /\ UNCHANGED <<rrIndex, readLog>>
              /\ IF fail THEN Return(w, f, "ErrStorage", "", FALSE)
                 ELSE Proceed(w, [f EXCEPT !.code = Encode(Uint64(GetNextID(primary)))], "insert")

\* CreateShortURL up to and including its first storage operation
CreateShortURL(w, url, alias) ==
    /\ pc[w] = "idle"
    /\ ncalls' = ncalls + 1
    /\ UNCHANGED <<driver, nrep, primary, seq, replica>>
    /\ LET f == NewFrame("create", url, alias, alias) IN
       IF validateURL(url) # "OK"
       THEN Return(w, f, validateURL(url), "", FALSE) /\ UNCHANGED <<rrIndex, readLog>>
       ELSE IF alias # NoAlias
       THEN IF validateAlias(alias) # "OK"
            THEN Return(w, f, validateAlias(alias), "", FALSE) /\ UNCHANGED <<rrIndex, readLog>>
            ELSE \E fail \in ReadFailures :
                   /\ ReadRouted
                   /\ LET got == GetByShortCode(alias, fail) IN
                      IF got.err = "OK" THEN Return(w, f, "ErrAliasExists", "", FALSE)
                      ELSE IF got.err # "ErrNotFound" THEN Return(w, f, got.err, "", FALSE)
                      ELSE Proceed(w, f, "insert")
       ELSE \E fail \in BOOLEAN :
              /\ UNCHANGED <<rrIndex, readLog>>
              /\ IF fail THEN Return(w, f, "ErrStorage", "", FALSE)
                 ELSE Proceed(w, [f EXCEPT !.code = Encode(Uint64(GetNextID(primary)))], "insert")

\* repo.Create and the response of CreateShortURL
CreateInsert(w) ==
    /\ pc[w] = "insert"
    /\ UNCHANGED <<driver, nrep, replica, rrIndex, readLog, ncalls>>
    /\ LET f == frame[w] IN
       \E fail \in BOOLEAN :
         IF fail
         THEN UNCHANGED <<primary, seq>> /\ Return(w, f, "ErrStorage", "", FALSE)
         ELSE IF UniqueViolation(primary, f.code)
         THEN /\ UNCHANGED primary
              /\ seq' = SeqAfterConflict
              /\ Return(w, f, "ErrUnique", "", FALSE)
         ELSE /\ primary' = primary \cup {NewRow(EngineID, f.code, f.url)}
              /\ seq' = EngineID
              /\ Return(w, f, "OK",
                        [short_url |-> sBaseURL \o <<"/", f.code>>, original_url |-> f.url], FALSE)

\* Resolve up to and including its lookup
Resolve(w, shortCode) ==
    /\ pc[w] = "idle"
    /\ ncalls' = ncalls + 1
    /\ UNCHANGED <<driver, nrep, primary, seq, replica>>
    /\ LET f == NewFrame("resolve", "", NoAlias, shortCode) IN
       \E fail \in ReadFailures :
         /\ ReadRouted
         /\ LET got == GetByShortCode(shortCode, fail) IN
            IF got.err = "ErrNotFound" THEN Return(w, f, "ErrURLNotFound", "", FALSE)
            ELSE IF got.err # "OK" THEN Return(w, f, got.err, "", FALSE)
            ELSE Proceed(w, [f EXCEPT !.url = got.row.original_url], "increment")

\* a Resolve that returns the error of its increment
ResolveIncrementChecked(w) ==
    /\ pc[w] = "increment"
    /\ UNCHANGED <<driver, nrep, seq, replica, rrIndex, readLog, ncalls>>
    /\ LET f == frame[w] IN
       \E fail \in BOOLEAN :
         /\ primary' = IF fail THEN primary ELSE IncrementClickCount(primary, f.code)
         /\ IF fail THEN Return(w, f, "ErrStorage", "", TRUE)
            ELSE Return(w, f, "OK", f.url, FALSE)

\* the click-count increment of Resolve, its error dropped, and the return
ResolveIncrement(w) ==
    /\ pc[w] = "increment"
    /\ UNCHANGED <<driver, nrep, seq, replica, rrIndex, readLog, ncalls>>
    /\ LET f == frame[w] IN
       \E fail \in BOOLEAN :
         /\ primary' = IF fail THEN primary ELSE IncrementClickCount(primary, f.code)
         /\ Return(w, f, "OK", f.url, fail)

GetURLStats(w, shortCode) ==
    /\ pc[w] = "idle"
    /\ ncalls' = ncalls + 1
    /\ UNCHANGED <<driver, nrep, primary, seq, replica>>
    /\ LET f == NewFrame("stats", "", NoAlias, shortCode) IN
       \E fail \in ReadFailures :
         /\ ReadRouted
         /\ LET got == GetByShortCode(shortCode, fail) IN
            IF got.err = "ErrNotFound" THEN Return(w, f, "ErrURLNotFound", NoRow, FALSE)
            ELSE Return(w, f, got.err, got.row, FALSE)

\* the storage engine brings replica i up to date with the primary
Replicate(i) ==
    /\ i \in 1..nrep
    /\ replica[i] # primary
    /\ replica' = [replica EXCEPT ![i] = primary]
    /\ UNCHANGED <<driver, nrep, primary, seq, rrIndex, readLog, pc, frame, ret, ncalls>>

----------------------------------------------------------------------------
(* URLHandler *)

\* nothing written to the http.ResponseWriter
NoResponse == [handler |-> "none", code |-> <<>>, status |-> 0, location |-> "", served |-> FALSE]

\* what a handler writes after the service returned r: HandleShorten its
\* error mapping or 201, HandleRedirect and handleStats 404 for
\* ErrURLNotFound, 500 for another error, and the redirect or the statistics
Response(r) ==
    [handler |-> r.op, code |-> r.code,
     status |->
        IF r.op = "create"
        THEN CASE r.err = "OK" -> 201
               [] r.err \in {"ErrEmptyURL", "ErrInvalidURL", "ErrInvalidAlias"} -> 400
               [] r.err = "ErrAliasExists" -> 409
               [] OTHER -> 500
        ELSE CASE r.err = "OK" -> (IF r.op = "resolve" THEN 301 ELSE 200)
               [] r.err = "ErrURLNotFound" -> 404
               [] OTHER -> 500,
     location |-> IF r.op = "resolve" /\ r.err = "OK" THEN r.val ELSE "",
     served |-> TRUE]

\* the response once the service has returned to the handler of w
Responded(w) == resp' = IF pc'[w] = "idle" THEN Response(ret'[w]) ELSE NoResponse

\* a request the handler answers on its own
Refused(w, handler, code, status) ==
    /\ pc[w] = "idle"
    /\ resp' = [handler |-> handler, code |-> code, status |-> status,
                location |-> "", served |-> FALSE]
    /\ UNCHANGED <<driver, nrep, primary, seq, replica, rrIndex, readLog, pc, frame, ret, ncalls>>

\* HandleShorten on a POST with a JSON body, up to the first storage operation
HandleShorten(w, url, alias) ==
    IF ValidateURL(url) # "OK" \/ ValidateCustomCode(alias) # "OK"
    THEN Refused(w, "create", alias, 400)
    ELSE CreateShortURL(w, url, alias) /\ Responded(w)

\* HandleRedirect on the path "/" \o shortCode, up to the first storage
\* operation; a path that ends in /stats goes to handleStats
HandleRedirect(w, shortCode) ==
    LET n == Len(shortCode)
        stats == n >= 6 /\ SubSeq(shortCode, n - 5, n) = <<"/","s","t","a","t","s">>
        code == IF stats THEN SubSeq(shortCode, 1, n - 6) ELSE shortCode
    IN  IF shortCode \in { <<>>, <<"f","a","v","i","c","o","n",".","i","c","o">>,
                           <<"s","h","o","r","t","e","n">>, <<"h","e","a","l","t","h">> }
        THEN Refused(w, "resolve", shortCode, 404)
        ELSE IF ValidateShortCode(code) # "OK"
        THEN Refused(w, IF stats THEN "stats" ELSE "resolve", code, 400)
        ELSE IF stats
        THEN GetURLStats(w, code) /\ Responded(w)
        ELSE Resolve(w, code) /\ Responded(w)

----------------------------------------------------------------------------
(* RateLimiter *)

\* DefaultRateLimiterConfig, one clock tick being one second
DefaultRate == 10
DefaultBurst == 20
DefaultInterval == 1
DefaultCleanup == 300

IPs == {"10.0.0.1", "10.0.0.2"}

NoCall == [ip |-> "none", fresh |-> FALSE, ok |-> TRUE, unsweptOk |-> TRUE, phase |-> 0,
           at |-> 0]

\* NewRateLimiter: an empty client table, the ticker of cleanupLoop started
NewRateLimiter ==
    /\ now = 0
    /\ clients = <<>>
    /\ unswept = <<>>
    /\ tickDue = FALSE
    /\ last = NoCall
    /\ first = [ip \in IPs |-> -1]
    /\ cnt1 = [ip \in IPs |-> 0]
    /\ cnt2 = [ip \in IPs |-> 0]
    /\ admits = [ip \in IPs |-> <<>>]

Min(a, b) == IF a < b THEN a ELSE b

\* rl.clients[ip] = c
Put(m, ip, c) == [x \in DOMAIN m \cup {ip} |-> IF x = ip THEN c ELSE m[x]]

\* delete(rl.clients, ip) for every ip of gone
Delete(m, gone) == [x \in DOMAIN m \ gone |-> m[x]]

\* the bucket of a client seen for the first time
NewClient == [tokens |-> burst - 1, lastCheck |-> now]

\* a refill that counts an interval that has only begun
TokensToAddRoundedUp(c) == ((now - c.lastCheck + interval - 1) \div interval) * rate

\* int(elapsed / rl.interval) * rl.rate
TokensToAdd(c) == ((now - c.lastCheck) \div interval) * rate

\* a refill that does not cap the bucket at burst
RefillUncapped(c) ==
    IF TokensToAdd(c) > 0
    THEN [tokens |-> c.tokens + TokensToAdd(c), lastCheck |-> now]
    ELSE c

\* the refill of Allow
Refill(c) ==
    IF TokensToAdd(c) > 0
    THEN [tokens |-> Min(c.tokens + TokensToAdd(c), burst), lastCheck |-> now]
    ELSE c

\* the decision of Allow on a refilled bucket
Admit(c) == c.tokens > 0

\* the bucket after the decision
Spend(c) == IF Admit(c) THEN [c EXCEPT !.tokens = @ - 1] ELSE c

\* Allow(ip) on client table m: the decision and the table it leaves
AllowOn(m, ip) ==
    IF ip \notin DOMAIN m
    THEN [ok |-> TRUE, clients |-> Put(m, ip, NewClient)]
    ELSE [ok |-> Admit(Refill(m[ip])), clients |-> Put(m, ip, Spend(Refill(m[ip])))]

\* the clients one pass of cleanupLoop deletes: lastCheck before now - cleanup
Stale(m) == {ip \in DOMAIN m : m[ip].lastCheck < now - cleanup}

\* whether ip's Allow call at time now falls in the refill interval that began
\* with its first call (1) or after it (2)
Phase(ip) == IF first[ip] = -1 \/ now < first[ip] + interval THEN 1 ELSE 2

Allow(ip) ==
    /\ clients' = AllowOn(clients, ip).clients
    /\ unswept' = AllowOn(unswept, ip).clients
    /\ last' = [ip |-> ip, fresh |-> ip \notin DOMAIN clients,
                ok |-> AllowOn(clients, ip).ok,
                unsweptOk |-> AllowOn(unswept, ip).ok, phase |-> Phase(ip),
                at |-> now]
    /\ first' = IF first[ip] = -1 THEN [first EXCEPT ![ip] = now] ELSE first
    /\ cnt1' = IF Phase(ip) = 1 THEN [cnt1 EXCEPT ![ip] = @ + 1] ELSE cnt1
    /\ cnt2' = IF Phase(ip) = 2 THEN [cnt2 EXCEPT ![ip] = @ + 1] ELSE cnt2
    /\ admits' = IF AllowOn(unswept, ip).ok THEN [admits EXCEPT ![ip] = Append(@, now)]
                  ELSE admits
    /\ UNCHANGED <<rate, burst, interval, cleanup, now, tickDue>>

\* one iteration of cleanupLoop
Sweep ==
    /\ tickDue
    /\ tickDue' = FALSE
    /\ clients' = Delete(clients, Stale(clients))
    /\ UNCHANGED <<rate, burst, interval, cleanup, now, unswept, last, first, cnt1, cnt2,
                   admits>>

\* time passes; the ticker fires every cleanup ticks
Tick ==
    /\ now' = now + 1
    /\ tickDue' = (tickDue \/ (now + 1) % cleanup = 0)
    /\ UNCHANGED <<rate, burst, interval, cleanup, clients, unswept, last, first, cnt1, cnt2,
                   admits>>

----------------------------------------------------------------------------
(* The service under concurrent request workers: Spec.                    *)
(* The service under one caller, one call at a time: SeqSpec.             *)

\* requests the concurrent workers submit to create
CreateURLs == {"https://example.com", "ftp://example.com"}
CreateAliases == { NoAlias, <<"t","a","k","e","n">>, <<"a","b">> }

\* requests the sequential caller submits to create
SeqURLs == {"https://example.com", "https://other.com", "ftp://example.com"}

\* codes the model resolves and asks statistics for
LookupCodes == { <<"t","a","k","e","n">>, Encode(Uint64(1)), Encode(Uint64(2)) }

\* Resolve calls of one code that returned the URL, and those among them whose
\* click-count increment did not fail
NoneResolved == [returned |-> 0, counted |-> 0]

\* the rate limiter as DefaultRateLimiterConfig builds it, at rest
LimiterAtRest ==
    /\ rate = DefaultRate /\ burst = DefaultBurst
    /\ interval = DefaultInterval /\ cleanup = DefaultCleanup
    /\ NewRateLimiter

FreshRepository ==
    /\ driver \in {"postgres", "sqlite3"}
    /\ nrep \in 0..MaxReplicas
    /\ driver = "sqlite3" => nrep = 0
    /\ primary = {}
    /\ seq = 0
    /\ replica = [i \in 1..nrep |-> {}]
    /\ rrIndex = U32(0, 0)
    /\ readLog = <<>>

WorkersIdle ==
    /\ pc = [w \in Workers |-> "idle"]
    /\ frame = [w \in Workers |-> NoFrame]
    /\ ret = [w \in Workers |-> NoRet]
    /\ ncalls = 0
    /\ snap = {}
    /\ resolved = [c \in LookupCodes |-> NoneResolved]

\* every replica answers
ReplicasUp == down = {}

\* no validator call and no HTTP request so far
FrontAtRest ==
    /\ vreq = [fn |-> "none"]
    /\ vres = "none"
    /\ resp = NoResponse

\* the service as main and the tests build it, its gateway open
ServiceAtRest ==
    /\ NewURLService(<<baseURL>>)
    /\ Open
    /\ FrontAtRest

\* no call of the encoder in progress
EncoderAtRest ==
    /\ num = U64(0, 0)
    /\ encoded = <<>>
    /\ decoded = U64(0, 0)
    /\ step = "rest"

Init ==
    /\ FreshRepository /\ ReplicasUp /\ WorkersIdle /\ ServiceAtRest
    /\ LimiterAtRest /\ EncoderAtRest

Create(w) ==
    /\ ncalls < MaxCalls
    /\ \E url \in CreateURLs, alias \in CreateAliases : CreateShortURL(w, url, alias)
    /\ UNCHANGED <<snap, resolved, rlVars, encVars, auxVars>>

Insert(w) == CreateInsert(w) /\ UNCHANGED <<snap, resolved, rlVars, encVars, auxVars>>

Redirect(w) ==
    /\ ncalls < MaxCalls
    /\ \E c \in LookupCodes : Resolve(w, c)
    /\ UNCHANGED <<snap, resolved, rlVars, encVars, auxVars>>

Increment(w) ==
    /\ ResolveIncrement(w)
    /\ resolved' = [resolved EXCEPT ![frame[w].code] =
                       [returned |-> @.returned + 1,
                        counted |-> @.counted + (IF ret'[w].incErr THEN 0 ELSE 1)]]
    /\ UNCHANGED <<snap, rlVars, encVars, auxVars>>

Stats(w) ==
    /\ ncalls < MaxCalls
    /\ \E c \in LookupCodes : GetURLStats(w, c)
    /\ UNCHANGED <<snap, resolved, rlVars, encVars, auxVars>>

Replication == \E i \in 1..nrep : Replicate(i) /\ UNCHANGED <<snap, resolved, rlVars, encVars, auxVars>>

Next == \/ \E w \in Workers : Create(w)
        \/ \E w \in Workers : Insert(w)
        \/ \E w \in Workers : Redirect(w)
        \/ \E w \in Workers : Increment(w)
        \/ \E w \in Workers : Stats(w)
        \/ Replication

Spec == Init /\ [][Next]_vars

\* the one caller of SeqSpec
Caller == "w1"

SeqCreate ==
    /\ ncalls < MaxSeqCalls
    /\ \E url \in SeqURLs, alias \in CreateAliases : CreateShortURL(Caller, url, alias)
    /\ snap' = primary
    /\ UNCHANGED <<resolved, rlVars, encVars, auxVars>>

SeqRedirect ==
    /\ ncalls < MaxSeqCalls
    /\ \E c \in LookupCodes : Resolve(Caller, c)
    /\ snap' = primary
    /\ UNCHANGED <<resolved, rlVars, encVars, auxVars>>

SeqStats ==
    /\ ncalls < MaxSeqCalls
    /\ \E c \in LookupCodes : GetURLStats(Caller, c)
    /\ snap' = primary
    /\ UNCHANGED <<resolved, rlVars, encVars, auxVars>>

SeqNext == SeqCreate \/ Insert(Caller) \/ SeqRedirect \/ Increment(Caller) \/ SeqStats
           \/ Replication

SeqSpec == Init /\ [][SeqNext]_vars

----------------------------------------------------------------------------
(* Read routing over synchronised replicas, one caller: RRSpec.           *)

\* replicas configured in the read-routing specification
MaxRRReplicas == 3

\* a repository that has served reads for a long time: 2^32 - 4 of them
LongRunning == U32(Half - 1, Half - 4)

StoredRow == [id |-> 1, short_code |-> <<"t","a","k","e","n">>,
              original_url |-> "https://example.com", created_at |-> 0, click_count |-> 0]

RRInit ==
    /\ driver = "postgres"
    /\ nrep \in 1..MaxRRReplicas
    /\ primary = {StoredRow}
    /\ seq = 1
    /\ replica = [i \in 1..nrep |-> primary]
    /\ rrIndex \in {U32(0, 0), LongRunning}
    /\ readLog = <<>>
    /\ down \in SUBSET (0..(nrep - 1))
    /\ WorkersIdle
    /\ ServiceAtRest
    /\ LimiterAtRest
    /\ EncoderAtRest

RouteRead ==
    /\ ncalls < MaxReads
    /\ closed = {}
    /\ \E c \in LookupCodes : GetURLStats(Caller, c)
    /\ snap' = primary
    /\ UNCHANGED <<resolved, rlVars, encVars, auxVars>>

\* the repository is closed at shutdown
Shutdown ==
    /\ Close
    /\ UNCHANGED <<svcVars, rlVars, encVars, down, sBaseURL, vreq, vres, resp, boot>>

RRNext == RouteRead \/ Shutdown

RRSpec == RRInit /\ [][RRNext]_vars

----------------------------------------------------------------------------
(* Startup, reads of concurrent request goroutines, shutdown: CRSpec.     *)

\* reads begun by the concurrent readers in one behaviour
MaxConcReads == 6

\* main before NewURLRepository: the configuration read, nrep replica hosts
\* configured, the stored rows already in the databases
CRInit ==
    /\ driver \in {"postgres", "sqlite3"}
    /\ nrep \in 0..MaxRRReplicas
    /\ driver = "sqlite3" => nrep = 0
    /\ primary = {StoredRow}
    /\ seq = 1
    /\ replica = [i \in 1..nrep |-> primary]
    /\ rrIndex = U32(0, 0)
    /\ readLog = <<>>
    /\ down \in SUBSET (0..(nrep - 1))
    /\ WorkersIdle
    /\ NewURLService(<<baseURL>>)
    /\ closed = {} /\ closeFailed = {} /\ closeRet = [nil |-> TRUE, errs |-> <<>>]
    /\ boot = [ret |-> "none", step |-> 0, opened |-> {}, shut |-> {}]
    /\ FrontAtRest
    /\ LimiterAtRest
    /\ EncoderAtRest

\* main calls NewURLRepository, and exits when it returns an error
StartRepository ==
    /\ NewURLRepository
    /\ UNCHANGED <<svcVars, rlVars, encVars, down, closed, closeFailed, closeRet, sBaseURL,
                   vreq, vres, resp>>

\* getReadDB of a read that goroutine w begins: one atomic add on the shared
\* counter, the value it returns kept in the goroutine's local idx; without
\* replicas the primary is selected and the counter is left alone
SelectReplica ==
    /\ boot.ret = "repo"
    /\ closed = {}
    /\ ncalls < MaxConcReads
    /\ \E w \in Workers :
         /\ pc[w] = "idle"
         /\ rrIndex' = IF nrep = 0 THEN rrIndex ELSE AddUint32(rrIndex)
         /\ Proceed(w, [op |-> "read", url |-> "", alias |-> NoAlias,
                        code |-> StoredRow.short_code,
                        idx |-> IF nrep = 0 THEN rrIndex ELSE AddUint32(rrIndex)], "query")
    /\ ncalls' = ncalls + 1
    /\ UNCHANGED <<driver, nrep, primary, seq, replica, readLog, snap, resolved,
                   rlVars, encVars, auxVars>>

\* the query of GetByShortCode on r.replicas[idx % n], and its return
QueryReplica ==
    /\ \E w \in Workers :
         /\ pc[w] = "query"
         /\ LET f == frame[w]
                i == IF nrep = 0 THEN 0 ELSE ModUint32(f.idx, nrep) IN
            /\ readLog' = IF nrep = 0 THEN readLog ELSE Append(readLog, i)
            /\ \E fail \in (IF nrep > 0 /\ i \in down THEN {TRUE} ELSE BOOLEAN) :
                 LET got == IF fail THEN Failed
                            ELSE Query(IF nrep = 0 THEN primary ELSE replica[i + 1], f.code)
                 IN  Return(w, f, got.err, got.row, FALSE)
    /\ UNCHANGED <<driver, nrep, primary, seq, replica, rrIndex, ncalls, snap, resolved,
                   rlVars, encVars, auxVars>>

\* the shutdown branch of main: server.Shutdown returns nil once no request is
\* in flight, or the context's error when ShutdownTimeout has passed with a
\* request still in flight, after which main calls server.Close, which does
\* not wait for the handlers; then repo.Close
StopServer ==
    /\ boot.ret = "repo"
    /\ \E timedOut \in BOOLEAN : ~timedOut => \A w \in Workers : pc[w] = "idle"
    /\ Close
    /\ UNCHANGED <<svcVars, rlVars, encVars, down, sBaseURL, vreq, vres, resp, boot>>

CRNext == StartRepository \/ SelectReplica \/ QueryReplica \/ StopServer

CRSpec == CRInit /\ [][CRNext]_vars

----------------------------------------------------------------------------
(* The rate limiter under its clients, the clock and cleanupLoop: RLSpec. *)

\* configurations of the limiter
MaxRate == 2
MaxBurst == 2
MaxInterval == 3
MaxCleanup == 2
\* Allow calls in one behaviour
MaxAllows == 4
\* clock ticks in one behaviour
MaxTime == 3

RepositoryAtRest ==
    /\ driver = "sqlite3"
    /\ nrep = 0
    /\ primary = {}
    /\ seq = 0
    /\ replica = <<>>
    /\ rrIndex = U32(0, 0)
    /\ readLog = <<>>
    /\ ReplicasUp
    /\ WorkersIdle
    /\ ServiceAtRest

RLInit ==
    /\ rate \in 1..MaxRate
    /\ burst \in 0..MaxBurst
    /\ interval \in 1..MaxInterval
    /\ cleanup \in 1..MaxCleanup
    /\ NewRateLimiter
    /\ RepositoryAtRest
    /\ EncoderAtRest

Allows == cnt1["10.0.0.1"] + cnt2["10.0.0.1"] + cnt1["10.0.0.2"] + cnt2["10.0.0.2"]

Request == Allows < MaxAllows /\ (\E ip \in IPs : Allow(ip)) /\ UNCHANGED <<svcVars, encVars, auxVars>>

Cleanup == Sweep /\ UNCHANGED <<svcVars, encVars, auxVars>>

Clock == now < MaxTime /\ Tick /\ UNCHANGED <<svcVars, encVars, auxVars>>

RLNext == Request \/ Cleanup \/ Clock

RLSpec == RLInit /\ [][RLNext]_vars

----------------------------------------------------------------------------
(* The encoder under one caller: EncSpec.  The caller encodes a number and  *)
(* decodes the result, or decodes a string of its own.                      *)

\* low limbs 0..MaxLow are all submitted to Encode
MaxLow == 70
\* longest string submitted to Decode
MaxLen == 3

\* low limbs at the powers of 62 and the numbers of base62_test.go
LowSamples ==
    { 3843, 3844, 12345, 238327, 238328, 1000000, 14776335, 14776336,
      123456789, Limb - 1 }

\* high limbs: 0, the sixth digit at its ends, and the top of 62^10 - 1
HighSamples == { 0, 1, 61, 62, Limb - 1 }

EncodeInputs ==
    { U64(hi, lo) : hi \in HighSamples, lo \in (0..MaxLow) \cup LowSamples }

\* characters of the strings submitted to Decode: digits of the alphabet, a
\* punctuation mark and a rune beyond ASCII
DecodeChars == { "0", "1", "Z", "!", "U+0131" }

DecodeInputs ==
    UNION { [1..n -> DecodeChars] : n \in 1..MaxLen }

EncInit ==
    /\ num \in EncodeInputs
    /\ encoded = <<>>
    /\ decoded = U64(0, 0)
    /\ step = "start"
    /\ RepositoryAtRest
    /\ LimiterAtRest

\* encoded := Encode(num)
EncodeCall ==
    /\ step = "start"
    /\ encoded' = Encode(num)
    /\ step' = "encoded"
    /\ UNCHANGED <<num, decoded, svcVars, rlVars, auxVars>>

\* decoded := Decode(encoded), on the string Encode returned
DecodeCall ==
    /\ step = "encoded"
    /\ decoded' = Decode(encoded)
    /\ step' = "decoded"
    /\ UNCHANGED <<num, encoded, svcVars, rlVars, auxVars>>

\* decoded := Decode(s), on a string of the caller
DecodeString ==
    /\ step = "start"
    /\ \E s \in DecodeInputs :
          /\ encoded' = s
          /\ decoded' = Decode(s)
    /\ step' = "parsed"
    /\ UNCHANGED <<num, svcVars, rlVars, auxVars>>

EncNext == EncodeCall \/ DecodeCall \/ DecodeString

EncSpec == EncInit /\ [][EncNext]_vars

----------------------------------------------------------------------------
(* The validation functions under one caller: ValSpec.                     *)

\* longest alias submitted to the validation functions
MaxAliasLen == 21

\* aliases submitted: runs of one character of every length, aliases of 3 and
\* of 20 characters with one foreign character, and reserved words in three
\* spellings
AliasInputs ==
    { [i \in 1..n |-> c] : n \in 0..MaxAliasLen, c \in {"a", "Z", "7", "-", "_"} }
    \cup { [i \in 1..n |-> IF i = k THEN x ELSE "a"] :
             n \in {3, 20}, k \in {1, 2, 3}, x \in {"!", " ", ".", "/", "U+0131"} }
    \cup reserved
    \cup { <<"A","d","m","i","n">>, <<"A","P","I">>, <<"S","T","A","T","S">>, <<"s","t","a","t">> }

ValInit ==
    /\ RepositoryAtRest
    /\ LimiterAtRest
    /\ EncoderAtRest

Validated(fn, arg, res) ==
    /\ vreq' = [fn |-> fn, arg |-> arg]
    /\ vres' = res
    /\ UNCHANGED <<svcVars, rlVars, encVars, down, closed, closeFailed, closeRet, sBaseURL, resp,
                   boot>>

CallValidateURL == \E r \in RawURLs : Validated("validateURL", r, validateURL(r))

CallValidatorURL == \E r \in RawURLs : Validated("ValidateURL", r, ValidateURL(r))

CallValidateAlias == \E a \in AliasInputs : Validated("validateAlias", a, validateAlias(a))

CallValidateShortCode ==
    \E a \in AliasInputs : Validated("ValidateShortCode", a, ValidateShortCode(a))

CallValidateCustomCode ==
    \E a \in AliasInputs : Validated("ValidateCustomCode", a, ValidateCustomCode(a))

ValNext == \/ CallValidateURL \/ CallValidatorURL \/ CallValidateAlias
           \/ CallValidateShortCode \/ CallValidateCustomCode

ValSpec == ValInit /\ [][ValNext]_vars

----------------------------------------------------------------------------
(* The service on a repository in long use, one caller: UsedSpec.          *)

\* service calls begun in one behaviour
MaxUsedCalls == 3

\* base URLs the service is configured with
BaseURLs == { <<baseURL>>, <<baseURL, "/">>, <<baseURL, "/", "/">> }

\* The table holds two records made with custom aliases, the later one under
\* id 3843: the ids between them went to inserts that failed on the UNIQUE
\* constraint, each of which consumed a value of the PostgreSQL sequence.
UsedInit ==
    /\ driver = "postgres"
    /\ nrep = 1
    /\ primary = { [id |-> 1, short_code |-> <<"t","a","k","e","n">>,
                    original_url |-> "https://example.com", created_at |-> 0, click_count |-> 0],
                   [id |-> 3843, short_code |-> <<"m","y","-","l","i","n","k">>,
                    original_url |-> "https://other.com", created_at |-> 0, click_count |-> 0] }
    /\ seq = 3843
    /\ replica = [i \in 1..nrep |-> primary]
    /\ rrIndex = U32(0, 0)
    /\ readLog = <<>>
    /\ ReplicasUp
    /\ WorkersIdle
    /\ \E configured \in BaseURLs : NewURLService(configured)
    /\ Open
    /\ FrontAtRest
    /\ LimiterAtRest
    /\ EncoderAtRest

\* creates with no alias, with the alias that is the encoding of the identifier
\* after next, and with a reserved word as alias
UsedCreate ==
    /\ ncalls < MaxUsedCalls
    /\ \E alias \in { NoAlias, Encode(Uint64(3845)), <<"A","d","m","i","n">> } :
          CreateShortURL(Caller, "https://example.com", alias)
    /\ snap' = primary
    /\ UNCHANGED <<resolved, rlVars, encVars, auxVars>>

UsedNext == UsedCreate \/ Insert(Caller) \/ Replication

UsedSpec == UsedInit /\ [][UsedNext]_vars

----------------------------------------------------------------------------
(* The service behind its HTTP handlers, one client: HttpSpec.             *)

\* requests that reach the service in one behaviour
MaxHttpCalls == 3

HttpInit == Init /\ nrep = 0

\* POST /shorten
HttpShorten ==
    /\ ncalls < MaxHttpCalls
    /\ \E url \in {"https://example.com", "http://localhost:3000/x"},
          alias \in {NoAlias, <<"t","a","k","e","n">>, <<"A","d","m","i","n">>} :
          HandleShorten(Caller, url, alias)
    /\ UNCHANGED <<snap, resolved, rlVars, encVars, down, closed, closeFailed, closeRet,
                   sBaseURL, vreq, vres, boot>>

\* GET /{shortCode} and GET /{shortCode}/stats
HttpGet ==
    /\ ncalls < MaxHttpCalls
    /\ \E path \in LookupCodes \cup { <<"h","e","a","l","t","h">>,
                                     <<"t","a","k","e","n","/","s","t","a","t","s">> } :
          HandleRedirect(Caller, path)
    /\ UNCHANGED <<snap, resolved, rlVars, encVars, down, closed, closeFailed, closeRet,
                   sBaseURL, vreq, vres, boot>>

\* the second storage operation of the request in hand, and the response
HttpFinish ==
    /\ CreateInsert(Caller) \/ ResolveIncrement(Caller)
    /\ Responded(Caller)
    /\ UNCHANGED <<snap, resolved, rlVars, encVars, down, closed, closeFailed, closeRet,
                   sBaseURL, vreq, vres, boot>>

HttpNext == HttpShorten \/ HttpGet \/ HttpFinish

HttpSpec == HttpInit /\ [][HttpNext]_vars

----------------------------------------------------------------------------
(* Claims about the shortening service and the storage gateway *)

IsCreate(r) == r.op = "create"
Faulted(r) == r.err = "ErrStorage"
GeneratedCreate(r) == IsCreate(r) /\ r.alias = NoAlias /\ validateURL(r.url) = "OK"
AliasCreate(r) ==
    IsCreate(r) /\ r.alias # NoAlias /\ validateURL(r.url) = "OK" /\ validateAlias(r.alias) = "OK"

\* C1: when two callers have each run a create without custom alias, in any
\* interleaving of their GetNextID and Create steps, and no storage operation
\* failed, both calls succeeded and their generated short codes differ.
C1_ConcurrentGeneratedCreatesSucceed ==
    \A w1, w2 \in Workers :
        ( /\ w1 # w2
          /\ GeneratedCreate(ret[w1]) /\ ~Faulted(ret[w1])
          /\ GeneratedCreate(ret[w2]) /\ ~Faulted(ret[w2]) )
        => /\ ret[w1].err = "OK"
           /\ ret[w2].err = "OK"
           /\ ret[w1].code # ret[w2].code

\* C2: in every reachable state no two records stored in the primary have the
\* same short code.
C2_ShortCodeUnique ==
    \A r1, r2 \in primary : r1.short_code = r2.short_code => r1 = r2

\* two creates met on one short code, the constraint turned one away, and the
\* table holds two records
C2_Witness ==
    /\ \E w \in Workers : IsCreate(ret[w]) /\ ret[w].err = "ErrUnique"
                          /\ ret[w].code \in Codes(primary)
    /\ Cardinality(primary) = 2

\* C3: a create of the sequential caller that asks for an alias which was
\* stored when the call began (an earlier create of it succeeded) returns
\* ErrAliasExists, unless a storage operation failed, and leaves the table as
\* it was: no new record, the first record unchanged.
C3_DuplicateAliasConflicts ==
    LET r == ret[Caller] IN
        (AliasCreate(r) /\ r.alias \in Codes(snap) /\ ~Faulted(r))
        => (r.err = "ErrAliasExists" /\ primary = snap)

\* C4: when the only two calls so far are creates of two workers that ask for
\* the same valid alias, with no replica configured and no storage failure,
\* one of them succeeded and the other returned ErrAliasExists.
C4_SameAliasRaceConflict ==
    \A w1, w2 \in Workers :
        ( /\ w1 # w2 /\ nrep = 0 /\ ncalls = 2
          /\ AliasCreate(ret[w1]) /\ ~Faulted(ret[w1])
          /\ AliasCreate(ret[w2]) /\ ~Faulted(ret[w2])
          /\ ret[w1].alias = ret[w2].alias )
        => \E a, b \in {w1, w2} :
              a # b /\ ret[a].err = "OK" /\ ret[b].err = "ErrAliasExists"

\* C5: when Resolve(c) of the sequential caller has returned without error and
\* its increment on the primary did not fail, c was stored when the call began,
\* the value returned is c's original URL, c's click count in the primary is
\* one more than when the call began, and every other record is as it was.
C5_ResolveCountsOneClick ==
    LET r == ret[Caller] IN
        (r.op = "resolve" /\ r.err = "OK" /\ ~r.incErr)
        => /\ r.code \in Codes(snap)
           /\ r.code \in Codes(primary)
           /\ r.val = Row(snap, r.code).original_url
           /\ Row(primary, r.code) =
                 [Row(snap, r.code) EXCEPT !.click_count = @ + 1]
           /\ primary \ {Row(primary, r.code)} = snap \ {Row(snap, r.code)}

\* a second successful resolve of one code, read from a replica, beside
\* another record
C5_Witness ==
    LET r == ret[Caller] IN
        /\ r.op = "resolve" /\ r.err = "OK" /\ ~r.incErr
        /\ nrep = 1
        /\ Cardinality(primary) = 2
        /\ Row(primary, r.code).click_count = 1

\* what a read of code returns when no replica is configured: the primary answers
ZeroReplicaRead(code) == Query(snap, code)

\* C6: the results of the sequential caller's reads are those the gateway gives
\* with zero replicas: stats returns the primary's record of the code (its click
\* count included), resolve returns its original URL, and either returns
\* not-found only when the primary has no record of the code.
C6_ReplicasTransparent ==
    LET r == ret[Caller]
        z == ZeroReplicaRead(r.code)
    IN  /\ (r.op = "stats" /\ ~Faulted(r))
              => IF z.err = "OK" THEN r.err = "OK" /\ r.val = z.row
                 ELSE r.err = "ErrURLNotFound"
        /\ (r.op = "resolve" /\ ~Faulted(r))
              => IF z.err = "OK" THEN r.err = "OK" /\ r.val = z.row.original_url
                 ELSE r.err = "ErrURLNotFound"

\* C10: the reads of one caller are spread evenly: any N*k consecutive reads
\* over N replicas send exactly k reads to each replica.
C10_RoundRobinEven ==
    \A k \in 1..MaxReads : \A i \in 1..Len(readLog) :
        (i + nrep * k - 1 <= Len(readLog))
        => \A rep \in 0..(nrep - 1) :
              Cardinality({j \in i..(i + nrep * k - 1) : readLog[j] = rep}) = k

----------------------------------------------------------------------------
(* Claims about the rate limiter *)

\* C7: with burst >= 1, in every reachable state every client bucket holds
\* between 0 and burst tokens, and the request of a client that had no bucket
\* is admitted and leaves burst - 1 tokens.
C7_TokensWithinBurst ==
    burst >= 1 =>
        /\ \A ip \in DOMAIN clients :
              0 <= clients[ip].tokens /\ clients[ip].tokens <= burst
        /\ last.fresh =>
              /\ last.ok
              /\ last.ip \in DOMAIN clients => clients[last.ip].tokens = burst - 1

\* a bucket that was refilled, spent down to 0 again, and its client turned away
C7_Witness ==
    /\ burst >= 1
    /\ last.ip \in DOMAIN clients
    /\ ~last.ok
    /\ clients[last.ip].tokens = 0
    /\ clients[last.ip].lastCheck > 0

\* C8: with burst >= 1 and rate <= burst, the n-th request of a client inside
\* the refill interval that began with its first request is admitted exactly
\* when n <= burst, and once that interval has elapsed its next rate requests
\* are admitted.
C8_BurstThenRate ==
    (last.ip # "none" /\ burst >= 1 /\ rate <= burst) =>
        /\ last.phase = 1 => (last.ok <=> cnt1[last.ip] <= burst)
        /\ (last.phase = 2 /\ cnt2[last.ip] <= rate) => last.ok

\* C9: every Allow call is decided as it is when cleanupLoop never runs; stated
\* for the limiters with burst >= 1 whose cleanup window is at least one refill
\* interval.
C9_SweepKeepsDecisions ==
    (burst >= 1 /\ cleanup >= interval) => last.ok = last.unsweptOk

----------------------------------------------------------------------------
(* Claims about the operations of the gateway and their effect on records *)

\* the call that the sequential caller has just begun: what it returned, or
\* the frame it goes on with
Begun == IF pc'[Caller] = "idle" THEN ret'[Caller] ELSE frame'[Caller]

\* the database the read of this step was dispatched to
Dispatched == IF nrep = 0 THEN primary ELSE replica[readLog'[Len(readLog')] + 1]

\* C11: create, increment_click_count and next_id execute on the primary;
\* get_by_code executes on a replica when one is configured, and otherwise on
\* the primary with the round-robin counter left as it was.
C11_ReadsOnReplicaWritesOnPrimary ==
    [][ /\ nrep = 0 => rrIndex' = rrIndex
        /\ (ncalls' = ncalls + 1 /\ pc'[Caller] = "insert" /\ Begun.alias = NoAlias)
              => /\ Begun.code = Encode(Uint64(GetNextID(primary)))
                 /\ rrIndex' = rrIndex
        /\ (ncalls' = ncalls + 1 /\ (pc'[Caller] = "idle" => ~Faulted(ret'[Caller]))
               /\ (Begun.op \in {"resolve", "stats"} \/ AliasCreate(Begun)))
              => LET got == Query(Dispatched, Begun.code) IN
                 /\ nrep > 0 => (Len(readLog') = Len(readLog) + 1 /\ rrIndex' # rrIndex)
                 /\ Begun.op = "stats"
                       => /\ Begun.err = "OK" <=> got.err = "OK"
                          /\ Begun.val = got.row
                 /\ Begun.op = "resolve"
                       => /\ pc'[Caller] = "increment" <=> got.err = "OK"
                          /\ got.err = "OK" => Begun.url = got.row.original_url
                 /\ Begun.op = "create"
                       => (pc'[Caller] = "insert" <=> got.err # "OK")
        /\ (pc[Caller] = "insert" /\ pc'[Caller] = "idle" /\ ret'[Caller].err = "OK")
              => /\ frame[Caller].code \in Codes(primary') \ Codes(primary)
                 /\ replica' = replica /\ rrIndex' = rrIndex
        /\ (pc[Caller] = "increment" /\ pc'[Caller] = "idle" /\ ~ret'[Caller].incErr)
              => /\ primary' = IncrementClickCount(primary, frame[Caller].code)
                 /\ replica' = replica /\ rrIndex' = rrIndex
      ]_vars

\* a read answered by a replica that the primary is ahead of
C11_Witness ==
    /\ nrep = 1
    /\ ret[Caller].op = "stats"
    /\ ret[Caller].err = "ErrURLNotFound"
    /\ ret[Caller].code \in Codes(snap)

C16_IncrementFailureDropped ==
    LET r == ret[Caller] IN
        (r.op = "resolve" /\ r.incErr)
        => /\ r.err = "OK"
           /\ r.code \in Codes(snap)
           /\ r.val = Row(snap, r.code).original_url
           /\ primary = snap

\* a resolve whose increment failed, after one that was counted
C16_Witness ==
    /\ ret[Caller].op = "resolve"
    /\ ret[Caller].incErr
    /\ ret[Caller].code \in Codes(primary)
    /\ Row(primary, ret[Caller].code).click_count = 1

\* C17 as claimed: the click count of every record is the number of Resolve
\* calls of its code that returned successfully.
C17_EveryResolveCounted ==
    \A c \in LookupCodes :
        c \in Codes(primary) => Row(primary, c).click_count = resolved[c].returned

\* C17: under any interleaving, the click count of every record is the number
\* of successful Resolve calls of its code whose increment did not fail; a new
\* record starts at 0 and no click count decreases.
C17_NoIncrementLost ==
    [][ /\ \A c \in LookupCodes :
              IF c \in Codes(primary')
              THEN Row(primary', c).click_count = resolved'[c].counted
              ELSE resolved'[c].counted = 0
        /\ \A r \in primary' :
              IF r.short_code \in Codes(primary)
              THEN r.click_count >= Row(primary, r.short_code).click_count
              ELSE r.click_count = 0
      ]_vars

\* the two workers have each resolved one code, and both clicks are counted
C17_Witness ==
    /\ ret["w1"].op = "resolve" /\ ret["w1"].err = "OK"
    /\ ret["w2"].op = "resolve" /\ ret["w2"].err = "OK"
    /\ ret["w1"].code = ret["w2"].code
    /\ resolved[ret["w1"].code].counted = 2
    /\ Row(primary, ret["w1"].code).click_count = 2

\* C18: no step deletes a record or changes its short code, original URL,
\* identifier or creation timestamp: a record differs from what it was in its
\* click count at most.
C18_OnlyClickCountChanges ==
    [][ \A r \in primary :
          \E q \in primary' : q = [r EXCEPT !.click_count = q.click_count] ]_vars

\* a record that was clicked, beside a record created after it
C18_Witness ==
    \E r, q \in primary : r.click_count >= 1 /\ q.id > r.id

\* C19: a record that a step stores gets an identifier above every identifier
\* stored or handed out before, failed create attempts included; stored
\* identifiers stay with their records.
C19_IdsIncreaseNeverReused ==
    [][ /\ seq' >= seq
        /\ \A r \in primary' :
              /\ r.id <= seq'
              /\ \/ \E q \in primary : q.id = r.id /\ q.short_code = r.short_code
                 \/ r.id > seq /\ \A q \in primary : r.id > q.id
      ]_vars

\* a record stored after a create attempt that failed on the constraint: the
\* identifier of the failed attempt is left out
C19_Witness ==
    /\ Ids(primary) = {1, 3}
    /\ \E w \in Workers : IsCreate(ret[w]) /\ ret[w].err = "OK"

\* C20: GetNextID returns 1 on an empty table and otherwise the maximum stored
\* identifier plus 1, and changes no stored state; called again with no insert
\* in between it returns the same value.
C20_NextIdIsMaxPlusOne ==
    [][ (ncalls' = ncalls + 1 /\ pc'[Caller] = "insert" /\ Begun.alias = NoAlias)
        => /\ primary' = primary /\ seq' = seq /\ replica' = replica
           /\ \E n \in 1..(seq + 1) :
                 /\ Begun.code = Encode(Uint64(n))
                 /\ IF primary = {} THEN n = 1
                    ELSE n - 1 \in Ids(primary) /\ \A i \in Ids(primary) : i < n
           /\ ( GeneratedCreate(ret[Caller]) /\ ret[Caller].err # "OK"
                 /\ ret[Caller].code # NoAlias )
               => Begun.code = ret[Caller].code
      ]_vars

\* a next id asked for while the stored identifiers have a gap
C20_Witness ==
    /\ pc[Caller] = "insert"
    /\ frame[Caller].alias = NoAlias
    /\ Ids(primary) = {1, 3}
    /\ frame[Caller].code = Encode(Uint64(4))

----------------------------------------------------------------------------
(* Claims about the encoder *)

\* the characters of the alphabet
Letters == { alphabet[i] : i \in 1..base }

\* 62^k, for k in 0..5
RECURSIVE Pow(_)
Pow(k) == IF k = 0 THEN 1 ELSE base * Pow(k - 1)

\* n <= 62^k - 1, for k in 1..10
Below(n, k) == IF k <= 5 THEN n.hi = 0 /\ n.lo < Pow(k) ELSE n.hi < Pow(k - 5)

\* the digit value of the character p places from the right end of s
Place(s, p) == IF p < Len(s) THEN indexOf(s[Len(s) - p]) ELSE 0

\* the number that s denotes as a base-62 numeral, most significant digit
\* first, for s of at most 10 characters
Numeral(s) ==
    U64(Place(s, 5) + Place(s, 6) * Pow(1) + Place(s, 7) * Pow(2)
          + Place(s, 8) * Pow(3) + Place(s, 9) * Pow(4),
        Place(s, 0) + Place(s, 1) * Pow(1) + Place(s, 2) * Pow(2)
          + Place(s, 3) * Pow(3) + Place(s, 4) * Pow(4))

\* C12: for every n below 62^10, decoding what Encode(n) returned gives n.
C12_RoundTrip ==
    step = "decoded" => decoded = num

\* the largest number below 62^10 went through Encode and Decode
C12_Witness ==
    /\ step = "decoded"
    /\ num = U64(Limb - 1, Limb - 1)
    /\ Len(encoded) = 10

\* C13: Encode(n) is the base-62 numeral of n over the alphabet, most
\* significant digit first and without a leading zero digit: Encode(0) is "0",
\* Encode(n) for n < 62 is the character at alphabet position n, Encode(62) is
\* "10", and every n <= 62^k - 1 has at most k characters.
C13_EncodeIsNumeral ==
    step \in {"encoded", "decoded"} =>
        /\ Len(encoded) >= 1
        /\ \A i \in 1..Len(encoded) : encoded[i] \in Letters
        /\ Numeral(encoded) = num
        /\ Len(encoded) > 1 => encoded[1] # alphabet[1]
        /\ num = U64(0, 0) => encoded = <<"0">>
        /\ (num.hi = 0 /\ num.lo < base) => encoded = <<alphabet[num.lo + 1]>>
        /\ num = U64(0, 62) => encoded = <<"1", "0">>
        /\ \A k \in 1..10 : Below(num, k) => Len(encoded) <= k

\* 62^6 - 1 was encoded, in 6 characters
C13_Witness ==
    /\ step = "encoded"
    /\ num = U64(61, Limb - 1)
    /\ Len(encoded) = 6

\* what a Decode that rejects its input hands back
Rejected == [err |-> "character outside the alphabet"]

\* C14: Decode of a string that holds a character outside the alphabet is
\* rejected: it hands back an error, not a number.
C14_DecodeRejectsForeign ==
    (step = "parsed" /\ \E i \in 1..Len(encoded) : encoded[i] \notin Letters)
        => decoded = Rejected

----------------------------------------------------------------------------
(* Claims about the life cycle of the storage gateway *)

\* C25: Close calls Close on the primary and on every replica, also after an
\* earlier close failed; the error it returns reports every close that failed,
\* the primary's first, and it returns nil exactly when every close succeeded.
C25_CloseReportsEveryFailure ==
    closed # {} =>
        /\ closed = 0..nrep
        /\ closeRet.nil = (closeFailed = {})
        /\ Len(closeRet.errs) = Cardinality(closeFailed)
        /\ \A c \in closeFailed : \E i \in 1..Len(closeRet.errs) : closeRet.errs[i] = CloseError(c)
        /\ 0 \in closeFailed => closeRet.errs[1] = CloseError(0)

\* the close of the primary failed, and so did the close of the last replica
C25_Witness ==
    /\ closed # {}
    /\ nrep >= 2
    /\ closeFailed = {0, nrep}
    /\ ~closeRet.nil

\* C26: a read that getReadDB dispatches to a replica that is down returns the
\* storage error (not the not-found error, not a row): it is dispatched once,
\* to that replica, no other database answers in its place, and the
\* round-robin counter has advanced by exactly one.
C26_DownReplicaIsStorageError ==
    [][ ( /\ ncalls' = ncalls + 1
          /\ nrep > 0
          /\ ReadIdx \in down )
        => ( /\ ret'[Caller].err = "ErrStorage"
             /\ ret'[Caller].val = NoRow
             /\ readLog' = Append(readLog, ReadIdx)
             /\ rrIndex'.lo = (rrIndex.lo + 1) % Half
             /\ rrIndex'.hi = (rrIndex.hi + (IF rrIndex.lo = Half - 1 THEN 1 ELSE 0)) % Half
             /\ primary' = primary ) ]_vars

\* a read of a stored code went to a down replica while another replica is up
C26_Witness ==
    /\ readLog # <<>>
    /\ readLog[Len(readLog)] \in down
    /\ down # 0..(nrep - 1)
    /\ ret[Caller].op = "stats"
    /\ ret[Caller].code \in Codes(primary)
    /\ ret[Caller].err = "ErrStorage"

----------------------------------------------------------------------------
(* Claims about validation *)

----------------------------------------------------------------------------
(* Claims about the service on a repository in long use *)

\* C23: the create operation of the service rejects with the validation
\* error, and without storing anything, every custom alias that equals a
\* reserved word in any letter case, and no record has a reserved word as its
\* short code.
C23_ReservedAliasRejected ==
    /\ \A r \in primary : \A word \in reserved : ~EqualFold(r.short_code, word)
    /\ ( /\ IsCreate(ret[Caller])
         /\ validateURL(ret[Caller].url) = "OK"
         /\ \E word \in reserved : EqualFold(ret[Caller].alias, word) )
       => (ret[Caller].err = "ErrInvalidAlias" /\ primary = snap)

\* C24: a successful create returns as short_url the base URL without its
\* trailing slashes, "/" and the short code of the record it stored, and as
\* original_url the URL of the request, which is also the record's; with a
\* custom alias the code is the alias.
C24_ResponseNamesStoredRecord ==
    (IsCreate(ret[Caller]) /\ ret[Caller].err = "OK") =>
        /\ ret[Caller].val.short_url = <<baseURL, "/", ret[Caller].code>>
        /\ ret[Caller].val.original_url = ret[Caller].url
        /\ ret[Caller].code \in Codes(primary) \ Codes(snap)
        /\ Row(primary, ret[Caller].code).original_url = ret[Caller].url
        /\ ret[Caller].alias # NoAlias => ret[Caller].code = ret[Caller].alias

\* a create with the alias 101 succeeded
C24_Witness ==
    /\ IsCreate(ret[Caller])
    /\ ret[Caller].err = "OK"
    /\ ret[Caller].alias = <<"1","0","1">>

\* C28: a code generated from an identifier is never the short code of an
\* existing record, and a sequential create without alias whose storage
\* operations do not fail succeeds, also after an earlier caller registered
\* as alias the base-62 encoding of an identifier yet to come.
C28_GeneratedCodeIsFree ==
    /\ (pc[Caller] = "insert" /\ frame[Caller].alias = NoAlias)
          => frame[Caller].code \notin Codes(primary)
    /\ (GeneratedCreate(ret[Caller]) /\ ~Faulted(ret[Caller])) => ret[Caller].err = "OK"

\* C29: when a create without alias failed at the insert because its derived
\* code exists, the next create without alias, with no write in between,
\* derives another identifier and code.
C29_FailedCreateDoesNotBlock ==
    [][ ( /\ GeneratedCreate(ret[Caller])
          /\ ret[Caller].err = "ErrUnique"
          /\ pc'[Caller] = "insert"
          /\ frame'[Caller].alias = NoAlias )
        => frame'[Caller].code # ret[Caller].code ]_vars

----------------------------------------------------------------------------
(* Claims about identifiers and codes under concurrent workers *)

\* C30: every record created without custom alias (in this specification the
\* records whose code is too short to be an alias) has Decode(short_code)
\* equal to its stored identifier, in every reachable state.
C30_CodeDecodesToId ==
    \A r \in primary :
        validateAlias(r.short_code) # "OK" => Decode(r.short_code) = Uint64(r.id)

----------------------------------------------------------------------------
(* Claims about the HTTP layer *)

\* C27: GET /{code} for the short code of a stored record (every code a
\* successful create returned, the generated codes of one and two characters
\* included) passes the handler's short-code validation and reaches Resolve,
\* and it redirects to the record's URL unless the storage fails.
C27_CreatedCodeRedirects ==
    (resp.handler = "resolve" /\ resp.code \in Codes(primary)) =>
        /\ resp.served
        /\ resp.status \in {301, 500}
        /\ resp.status = 301 => resp.location = Row(primary, resp.code).original_url
----------------------------------------------------------------------------
(* Claims about read routing across the counter's wrap *)

\* C32: with two or more replicas, every index getReadDB selects lies in
\* [0, N), and every N consecutive reads of the one caller select each replica
\* exactly once, also when the 32-bit counter wraps inside the window.
C32_WindowCoversReplicas ==
    nrep >= 2 =>
      /\ \A j \in 1..Len(readLog) : readLog[j] \in 0..(nrep - 1)
      /\ \A i \in 1..Len(readLog) :
           (i + nrep - 1 <= Len(readLog))
           => { readLog[j] : j \in i..(i + nrep - 1) } = 0..(nrep - 1)

----------------------------------------------------------------------------
(* Claims about the rate limiter's critical section, sweep and bounds *)

\* C33: while no refill is due for a client that holds k >= 0 tokens and no
\* time passes, each Allow call of that client admits exactly when k > 0 and
\* leaves max(k - 1, 0) tokens, and every other step (an Allow of another
\* client, a pass of the sweep) leaves the client's bucket as it is; hence N
\* such calls admit min(N, k) and leave max(k - N, 0) in any interleaving.
C33_AllowAtomicUnderSweep ==
    [][ \A ip \in DOMAIN clients :
          ( /\ clients[ip].tokens >= 0
            /\ TokensToAdd(clients[ip]) = 0
            /\ now' = now )
          => IF cnt1'[ip] + cnt2'[ip] # cnt1[ip] + cnt2[ip]
             THEN /\ last'.ok = (clients[ip].tokens > 0)
                  /\ ip \in DOMAIN clients'
                  /\ clients'[ip].tokens =
                       (IF clients[ip].tokens > 0 THEN clients[ip].tokens - 1 ELSE 0)
             ELSE /\ ip \in DOMAIN clients'
                  /\ clients'[ip] = clients[ip] ]_vars

\* C34: a pass of the sweep does not remove the client whose Allow call was
\* the latest one when that call, admitted or rejected, was made inside the
\* cleanup window that ends at the sweep.
C34_ActiveClientRetained ==
    [][ (tickDue /\ ~tickDue')
        => \A ip \in DOMAIN clients \ DOMAIN clients' :
              ~(last.ip = ip /\ last.at > now - cleanup) ]_vars

\* C35: in the client table no sweep touches, for every client and every
\* window of k >= 1 refill intervals, the calls of that client admitted inside
\* the window number at most burst + k * rate.  The admitted calls of a window
\* are a run i..j of admits[ip], and the shortest window that holds the run
\* spans the k whole intervals that cover admits[ip][j] - admits[ip][i].
C35_AdmittedWithinWindow ==
    \A ip \in IPs : \A i \in 1..Len(admits[ip]) : \A j \in i..Len(admits[ip]) :
        LET d == admits[ip][j] - admits[ip][i]
            k == IF d = 0 THEN 1 ELSE (d + interval - 1) \div interval
        IN  j - i + 1 <= burst + k * rate

\* a client has used a window to the full: its admitted calls, the first and
\* the last of them k >= 1 whole intervals apart, number burst + k * rate
C35_Witness ==
    \E ip \in IPs :
        LET a == admits[ip] IN
        /\ burst >= 1
        /\ Len(a) >= 2
        /\ a[Len(a)] - a[1] >= interval
        /\ (a[Len(a)] - a[1]) % interval = 0
        /\ Len(a) = burst + ((a[Len(a)] - a[1]) \div interval) * rate

\* C36: for every configured burst >= 0 no token count is negative, the calls
\* of a client admitted before its first refill (inside the interval that
\* began with its first call) number at most burst, and with burst = 0 no call
\* is admitted at all.
C36_AdmittedOnlyOnToken ==
    /\ \A ip \in DOMAIN clients : clients[ip].tokens >= 0
    /\ \A ip \in DOMAIN unswept : unswept[ip].tokens >= 0
    /\ \A ip \in IPs :
         /\ Cardinality({ j \in 1..Len(admits[ip]) : admits[ip][j] < first[ip] + interval })
              <= burst
         /\ burst = 0 => admits[ip] = <<>>

\* C37: an Allow call of client ip leaves the bucket of every other client,
\* tokens and lastCheck, as it was and adds no entry but ip's; a rejected call
\* leaves ip's own token count at 0 and, when it added no token, ip's
\* lastCheck unchanged.
C37_AllowTouchesOwnBucket ==
    [][ \A ip \in IPs :
          (cnt1'[ip] + cnt2'[ip] # cnt1[ip] + cnt2[ip])
          => /\ DOMAIN clients' = DOMAIN clients \cup {ip}
             /\ \A other \in DOMAIN clients \ {ip} : clients'[other] = clients[other]
             /\ ~last'.ok
                => /\ clients'[ip].tokens = 0
                   /\ TokensToAdd(clients[ip]) = 0
                      => clients'[ip].lastCheck = clients[ip].lastCheck ]_vars

----------------------------------------------------------------------------
(* Claims about the order of the checks of create *)

\* C38: a create checks the URL, then the alias, then looks the alias up, then
\* inserts, and the first failure is the one returned: an invalid URL returns
\* the URL's validation error whatever the alias is, an invalid alias returns
\* its validation error, and a call that fails validation reads no database
\* (the round-robin counter and the read log stay) and leaves the primary, the
\* replicas and the next identifier as they were; the call goes on to the
\* insert only when both validations passed and the lookup found no record.
C38_FirstFailureWins ==
    [][ (ncalls' = ncalls + 1 /\ Begun.op = "create")
        => LET vu == validateURL(Begun.url)
               va == IF Begun.alias = NoAlias THEN "OK" ELSE validateAlias(Begun.alias)
               returned == pc'[Caller] = "idle"
           IN  /\ vu # "OK" => returned /\ ret'[Caller].err = vu
               /\ (vu = "OK" /\ va # "OK") => returned /\ ret'[Caller].err = va
               /\ (vu # "OK" \/ va # "OK")
                    => /\ rrIndex' = rrIndex /\ readLog' = readLog
                       /\ primary' = primary /\ replica' = replica /\ seq' = seq
                       /\ GetNextID(primary') = GetNextID(primary)
               /\ (vu = "OK" /\ va = "OK" /\ Begun.alias # NoAlias)
                    => /\ nrep > 0 => Len(readLog') = Len(readLog) + 1
                       /\ Begun.alias \in Codes(Dispatched)
                            => returned /\ ret'[Caller].err \in {"ErrAliasExists", "ErrStorage"}
               /\ ~returned => vu = "OK" /\ va = "OK" /\ primary' = primary ]_vars

\* a create with an invalid URL and an alias that is taken has returned the
\* URL's validation error
C38_Witness ==
    /\ ret[Caller].op = "create"
    /\ validateURL(ret[Caller].url) # "OK"
    /\ ret[Caller].alias # NoAlias
    /\ ret[Caller].alias \in Codes(primary)
    /\ ret[Caller].err = "ErrInvalidURL"

----------------------------------------------------------------------------
(* Claims about startup and shutdown of the storage gateway *)

\* C39: NewURLRepository returns an error and no repository exactly when a
\* step of the startup failed (opening the primary, initialising the schema,
\* opening a replica); then every connection it had opened is closed, among
\* them the primary and every replica opened before the failing step, and no
\* read is ever served.
C39_FailedStartupClosesAll ==
    boot.ret # "none" =>
      /\ boot.ret = "error" <=> boot.step < nrep + 2
      /\ boot.ret = "error"
           => /\ boot.shut = boot.opened
              /\ boot.step >= 1 => 0 \in boot.shut
              /\ \A c \in 1..nrep : c + 1 < boot.step => c \in boot.shut
              /\ ncalls = 0
      /\ boot.ret = "repo" => boot.opened = 0..nrep /\ boot.shut = {}

\* the third replica failed to open after the primary and two replicas were
\* opened, and the three of them are closed
C39_Witness ==
    /\ boot.ret = "error"
    /\ boot.step = 4
    /\ boot.opened = {0, 1, 2}
    /\ boot.shut = {0, 1, 2}

\* C40: when repo.Close has run, no request handler is between the start and
\* the return of a storage operation: every request in flight at the shutdown
\* signal had completed, also when the graceful shutdown timed out.
C40_ClosedOnlyWhenDrained ==
    closed # {} => \A w \in Workers : pc[w] = "idle"

============================================================================
